---- MODULE Spec2Model ----
(***************************************************************************)
(* Model of subiquitycore/ui/interactive.py: the Selector pop-up widget    *)
(* (Selector, _PopUpSelectDialog, _PopUpButton, YesNo) and the text        *)
(* editors built on StringEditor.                                          *)
(*                                                                         *)
(* Python values are tagged records, so that values of different Python    *)
(* types can be stored side by side and compared: PyStr, PyInt, PyBool,    *)
(* PyTuple and None.  Text is a TLA+ string.  Python's 0-based and         *)
(* negative indexing is PyAt / InRange.                                    *)
(*                                                                         *)
(* Every handler is one action.  What the listeners of the 'select' signal *)
(* observe while the signal is being delivered (urwid delivers signals     *)
(* synchronously, inside _emit) is recorded in `seen`.  `op` is the last   *)
(* operation invoked, `pre` the object as it was when that operation was   *)
(* invoked, `raised` the exception the operation ended with and `ret` its  *)
(* return value.                                                           *)
(***************************************************************************)
EXTENDS Integers, Sequences, FiniteSets, TLC

VARIABLES
    self,      \* the Selector: None before/without construction, else its attributes
    events,    \* payloads of the 'select' signals delivered so far, oldest first
    seen,      \* what the listeners saw during the latest delivery of 'select'
    dialogs,   \* number of _PopUpSelectDialog objects created so far
    assigns,   \* number of index assignments and row clicks that completed
    ed,        \* the editor widget: its class, its Edit primitive, its error
    op,        \* the last operation: [name, arg]
    pre,       \* the state the last operation started from
    raised,    \* exception raised by the last operation, "None" if it returned
    ret        \* value returned by the last operation (the option named by a SelectorError)

vars == <<self, events, seen, dialogs, assigns, ed, op, pre, raised, ret>>

-----------------------------------------------------------------------------
(* Bounds of the model *)

\* longest raw option list given to Selector.__init__ in SpecCtor
MaxRaw == 3
\* longest option list of the Selector whose behaviour Spec explores
MaxOpts == 2
\* number of 'select' deliveries explored
MaxEvents == 2
\* number of pop-up dialogs created
MaxDialogs == 2
\* longest text typed into an editor
MaxText == 2

-----------------------------------------------------------------------------
(* Python values *)

None == [t |-> "None"]
PyStr(s) == [t |-> "str", s |-> s]
PyInt(n) == [t |-> "int", n |-> n]
PyBool(b) == [t |-> "bool", b |-> b]
PyTuple(es) == [t |-> "tuple", es |-> es]

\* bool(v)
Truthy(v) ==
    CASE v.t = "None" -> FALSE
      [] v.t = "bool" -> v.b
      [] v.t = "int" -> v.n # 0
      [] v.t = "str" -> v.s # ""
      [] v.t = "tuple" -> v.es # <<>>

\* whether seq[i] is defined in Python: -len <= i < len
InRange(seq, i) == -Len(seq) <= i /\ i < Len(seq)

\* position (0-based, from the front) that Python's seq[i] reads
PyPos(seq, i) == IF i >= 0 THEN i ELSE Len(seq) + i

\* seq[i] in Python
PyAt(seq, i) == seq[PyPos(seq, i) + 1]

\* all sequences over S of length lo..hi
SeqsOf(S, lo, hi) == UNION {[1..n -> S] : n \in lo..hi}

-----------------------------------------------------------------------------
(* urwid's default command map, as far as the widgets consult it *)

ACTIVATE == "activate"

Keys == {"enter", "esc", "up", "down", "x"}

_command_map(key) ==
    CASE key \in {"enter", " "} -> ACTIVATE
      [] key = "up" -> "cursor up"
      [] key = "down" -> "cursor down"
      [] OTHER -> "None"

-----------------------------------------------------------------------------
(* Selector.__init__: option normalization *)

_prefix == "(+) "

\* a loop body that took the value of a 2-element option from its second
\* element
NormalizeOpt_value_from_flag(opt) ==
    IF opt.t # "tuple" THEN
        IF opt.t # "str" THEN [err |-> TRUE, opt |-> <<>>]
        ELSE [err |-> FALSE, opt |-> <<opt, PyBool(TRUE), opt>>]
    ELSE IF Len(opt.es) = 1 THEN
        [err |-> FALSE, opt |-> <<opt.es[1], PyBool(TRUE), opt.es[1]>>]
    ELSE IF Len(opt.es) = 2 THEN
        [err |-> FALSE, opt |-> <<opt.es[1], opt.es[2], opt.es[2]>>]
    ELSE IF Len(opt.es) # 3 THEN [err |-> TRUE, opt |-> <<>>]
    ELSE [err |-> FALSE, opt |-> opt.es]

\* a loop body whose last test was len(opt) > 3
NormalizeOpt_only_too_long(opt) ==
    IF opt.t # "tuple" THEN
        IF opt.t # "str" THEN [err |-> TRUE, opt |-> <<>>]
        ELSE [err |-> FALSE, opt |-> <<opt, PyBool(TRUE), opt>>]
    ELSE IF Len(opt.es) = 1 THEN
        [err |-> FALSE, opt |-> <<opt.es[1], PyBool(TRUE), opt.es[1]>>]
    ELSE IF Len(opt.es) = 2 THEN
        [err |-> FALSE, opt |-> <<opt.es[1], opt.es[2], opt.es[1]>>]
    ELSE IF Len(opt.es) > 3 THEN [err |-> TRUE, opt |-> <<>>]
    ELSE [err |-> FALSE, opt |-> opt.es]

\* one pass of the loop body of __init__: the stored option, or the error
NormalizeOpt(opt) ==
    IF opt.t # "tuple" THEN
        IF opt.t # "str" THEN [err |-> TRUE, opt |-> <<>>]
        ELSE [err |-> FALSE, opt |-> <<opt, PyBool(TRUE), opt>>]
    ELSE IF Len(opt.es) = 1 THEN
        [err |-> FALSE, opt |-> <<opt.es[1], PyBool(TRUE), opt.es[1]>>]
    ELSE IF Len(opt.es) = 2 THEN
        [err |-> FALSE, opt |-> <<opt.es[1], opt.es[2], opt.es[1]>>]
    ELSE IF Len(opt.es) # 3 THEN [err |-> TRUE, opt |-> <<>>]
    ELSE [err |-> FALSE, opt |-> opt.es]

\* the loop of __init__ from raw option i on, acc being self._options so far;
\* it stops at the first option that raises
RECURSIVE NormalizeFrom(_, _, _)
NormalizeFrom(opts, i, acc) ==
    IF i > Len(opts) THEN [err |-> FALSE, at |-> 0, options |-> acc]
    ELSE LET r == NormalizeOpt(opts[i]) IN
         IF r.err THEN [err |-> TRUE, at |-> i, options |-> acc]
         ELSE NormalizeFrom(opts, i + 1, Append(acc, r.opt))

Normalize(opts) == NormalizeFrom(opts, 1, <<>>)

\* the text of the button for option val: self._prefix + self._options[val][0]
ButtonText(options, val) == _prefix \o PyAt(options, val)[1].s

\* a _set_index that wrote the button text back into the chosen option
_set_index_marks_option(s, val) ==
    [s EXCEPT !._button = ButtonText(s._options, val), !._index = val,
              !._options[PyPos(s._options, val) + 1][1] =
                  PyStr(ButtonText(s._options, val))]

\* Selector._set_index applied to the Selector s
_set_index(s, val) ==
    [s EXCEPT !._button = ButtonText(s._options, val), !._index = val]

\* Selector.index (the property's getter)
index(s) == s._index

\* Selector.value
value(s) == PyAt(s._options, s._index)[3]

\* a setter that emitted the option's label
index_setter_label(s, evs, val) ==
    LET payload == PyAt(s._options, val)[1] IN
    [events |-> Append(evs, payload),
     seen |-> [payload |-> payload, _button |-> s._button, index |-> index(s),
               value |-> value(s), open |-> s._pop_up_widget # None],
     self |-> _set_index(s, val)]

\* a setter that emitted after _set_index
index_setter_emit_last(s, evs, val) ==
    LET payload == PyAt(s._options, val)[3]
        s1 == _set_index(s, val)
    IN [events |-> Append(evs, payload),
        seen |-> [payload |-> payload, _button |-> s1._button, index |-> index(s1),
                  value |-> value(s1), open |-> s1._pop_up_widget # None],
        self |-> s1]

\* a setter that did nothing when val is already the index
index_setter_skip_repeat(s, evs, val) ==
    LET payload == PyAt(s._options, val)[3] IN
    [events |-> IF val = s._index THEN evs ELSE Append(evs, payload),
     seen |-> [payload |-> payload, _button |-> s._button, index |-> index(s),
               value |-> value(s), open |-> s._pop_up_widget # None],
     self |-> _set_index(s, val)]

\* Selector.index (the property's setter) applied to the Selector s with the
\* deliveries evs made so far: the signal is emitted first, so the listeners
\* run against s as it is before _set_index
index_setter(s, evs, val) ==
    LET payload == PyAt(s._options, val)[3] IN
    [events |-> Append(evs, payload),
     seen |-> [payload |-> payload, _button |-> s._button, index |-> index(s),
               value |-> value(s), open |-> s._pop_up_widget # None],
     self |-> _set_index(s, val)]

-----------------------------------------------------------------------------
(* _PopUpButton and _PopUpSelectDialog *)

\* a states table with the two markers exchanged
states_swapped(state) == IF state THEN "( ) " ELSE "(+) "

\* _PopUpButton.states
states(state) == IF state THEN "(+) " ELSE "( ) "

\* a dialog that made a button of every option, whatever its selectable flag
_PopUpSelectDialog_all_buttons(parent, cur_index, id) ==
    LET options == parent._options
        group == [j \in 1..Len(options) |->
                    [widget |-> "_PopUpButton",
                     text |-> states(j - 1 = cur_index) \o options[j][1].s,
                     click |-> j - 1]]
    IN [t |-> "_PopUpSelectDialog", id |-> id, cur_index |-> cur_index,
        group |-> group, focus |-> PyPos(group, cur_index)]

\* _PopUpSelectDialog.__init__: one row per option of the parent, the focus
\* on the row group[cur_index]; id numbers the dialog objects
_PopUpSelectDialog(parent, cur_index, id) ==
    LET options == parent._options
        group == [j \in 1..Len(options) |->
                    IF Truthy(options[j][2])
                    THEN [widget |-> "_PopUpButton",
                          text |-> states(j - 1 = cur_index) \o options[j][1].s,
                          click |-> j - 1]
                    ELSE [widget |-> "Text",
                          text |-> "    " \o options[j][1].s]]
    IN [t |-> "_PopUpSelectDialog", id |-> id, cur_index |-> cur_index,
        group |-> group, focus |-> PyPos(group, cur_index)]

\* a create_pop_up that seeded the dialog with the first option
create_pop_up_first(s, id) == _PopUpSelectDialog(s, 0, id)

\* PopUpLauncher.open_pop_up as Selector uses it: the pop-up widget becomes
\* what create_pop_up returns, a dialog on the current index
create_pop_up(s, id) == _PopUpSelectDialog(s, index(s), id)

open_pop_up(s, id) == [s EXCEPT !._pop_up_widget = create_pop_up(s, id)]

\* PopUpLauncher.close_pop_up as the dialog calls it on its parent
close_pop_up(s) == [s EXCEPT !._pop_up_widget = None]

\* a click that closed the pop-up before assigning
click_close_first(s, evs, i) == index_setter(close_pop_up(s), evs, i)

\* _PopUpSelectDialog.click
click(s, evs, i) ==
    LET r == index_setter(s, evs, i) IN
    [r EXCEPT !.self = close_pop_up(r.self)]

\* the largest member of a non-empty set of numbers: Python's max
Max(S) == CHOOSE m \in S : \A x \in S : x <= m

\* a get_pop_up_parameters that sized the overlay for the current option
get_pop_up_parameters_current_label(s) ==
    [t |-> "dict",
     left |-> -1,
     top |-> -index(s) - 1,
     overlay_width |-> Len(PyAt(s._options, s._index)[1].s) + Len(_prefix) + 3,
     overlay_height |-> Len(s._options) + 2]

\* Selector.get_pop_up_parameters
get_pop_up_parameters(s) ==
    LET width == Max({Len(s._options[j][1].s) : j \in 1..Len(s._options)})
                    + Len(_prefix) + 3
    IN [t |-> "dict",
        left |-> -1,
        top |-> -index(s) - 1,
        overlay_width |-> width,
        overlay_height |-> Len(s._options) + 2]

\* whether row j (0-based) of a dialog takes the focus
Selectable(dlg, j) == dlg.group[j + 1].widget = "_PopUpButton"

\* the Pile's handling of the keys its focused row returns: 'up' and 'down'
\* move the focus to the nearest selectable row in that direction
MoveFocus(dlg, key) ==
    LET n == Len(dlg.group)
        above == {j \in 0..(dlg.focus - 1) : Selectable(dlg, j)}
        below == {j \in (dlg.focus + 1)..(n - 1) : Selectable(dlg, j)}
    IN IF _command_map(key) = "cursor up" /\ above # {}
       THEN CHOOSE j \in above : \A k \in above : k <= j
       ELSE IF _command_map(key) = "cursor down" /\ below # {}
       THEN CHOOSE j \in below : \A k \in below : j <= k
       ELSE dlg.focus

\* whether the key, given to the dialog, makes the focused row emit 'click':
\* _PopUpButton.keypress on a key the command map binds to ACTIVATE
Clicks(dlg, key) ==
    /\ key # "esc"
    /\ Selectable(dlg, dlg.focus)
    /\ _command_map(key) = ACTIVATE

-----------------------------------------------------------------------------
(* Inputs *)

\* raw options of every shape __init__ distinguishes
RawOpt ==
    {PyStr("Yes"), PyStr("No"), PyInt(5),
     PyTuple(<<>>),
     PyTuple(<<PyStr("A")>>),
     PyTuple(<<PyStr("Group"), PyBool(FALSE)>>),
     PyTuple(<<PyStr("B"), PyBool(TRUE), PyInt(7)>>),
     PyTuple(<<PyStr("Sep"), PyBool(FALSE), PyStr("-")>>),
     PyTuple(<<PyStr("A"), PyBool(TRUE), PyStr("a"), PyStr("x")>>)}

RawLists == SeqsOf(RawOpt, 0, MaxRaw)

\* the options of the Selectors whose behaviour is explored
SelOpt ==
    {PyStr("Yes"),
     PyTuple(<<PyStr("Group"), PyBool(FALSE)>>),
     PyTuple(<<PyStr("B"), PyBool(TRUE), PyInt(7)>>)}

\* YesNo.__init__
YesNoOpts == <<PyStr("Yes"), PyStr("No")>>

\* a list with a heading row, as _PopUpSelectDialog renders option[1] false
GroupedOpts ==
    <<PyTuple(<<PyStr("Group"), PyBool(FALSE)>>),
      PyTuple(<<PyStr("A"), PyBool(TRUE)>>),
      PyTuple(<<PyStr("B"), PyBool(TRUE)>>)>>

SelLists == SeqsOf(SelOpt, 0, MaxOpts) \cup {YesNoOpts, GroupedOpts}

\* index arguments, in and out of range
IndexArgs == {-MaxOpts - 1} \cup (-1..MaxOpts)

-----------------------------------------------------------------------------
(* Operations on the Selector *)

NoEditor == None

\* a constructor that assigned through the index setter would emit
Selector_via_setter(opts, k, evs, sn) ==
    LET n == Normalize(opts)
        s == [t |-> "Selector", _options |-> n.options, _button |-> _prefix,
              _index |-> 0, _pop_up_widget |-> None]
    IN IF n.err THEN
           [self |-> None, events |-> evs, seen |-> sn,
            raised |-> "SelectorError", ret |-> opts[n.at]]
       ELSE IF ~InRange(n.options, k) THEN
           [self |-> None, events |-> evs, seen |-> sn,
            raised |-> "IndexError", ret |-> None]
       ELSE LET r == index_setter(s, evs, k) IN
            [self |-> r.self, events |-> r.events, seen |-> r.seen,
             raised |-> "None", ret |-> None]

\* Selector.__init__(opts, index=k): the Selector that results (None when the
\* constructor raises), the exception and the option the exception names
\* (evs, sn: the deliveries made so far, which __init__ leaves alone by
\* calling _set_index and not the index setter)
Selector(opts, k, evs, sn) ==
    LET n == Normalize(opts)
        s == [t |-> "Selector", _options |-> n.options, _button |-> _prefix,
              _index |-> 0, _pop_up_widget |-> None]
    IN IF n.err THEN
           [self |-> None, events |-> evs, seen |-> sn,
            raised |-> "SelectorError", ret |-> opts[n.at]]
       ELSE IF ~InRange(n.options, k) THEN
           [self |-> None, events |-> evs, seen |-> sn,
            raised |-> "IndexError", ret |-> None]
       ELSE [self |-> _set_index(s, k), events |-> evs, seen |-> sn,
             raised |-> "None", ret |-> None]

\* Selector.keypress(size, key), n being the number of dialogs created so far
Selector_keypress(s, n, key) ==
    IF _command_map(key) # ACTIVATE
    THEN [self |-> s, dialogs |-> n, ret |-> PyStr(key)]
    ELSE [self |-> open_pop_up(s, n + 1), dialogs |-> n + 1, ret |-> None]

\* a dialog keypress without the 'esc' branch
_PopUpSelectDialog_keypress_no_esc(s, evs, sn, key) ==
    LET dlg == s._pop_up_widget IN
    IF Clicks(dlg, key) THEN
        LET r == click(s, evs, dlg.group[dlg.focus + 1].click) IN
        [self |-> r.self, events |-> r.events, seen |-> r.seen, ret |-> None]
    ELSE
        [self |-> [s EXCEPT !._pop_up_widget.focus = MoveFocus(dlg, key)],
         events |-> evs, seen |-> sn,
         ret |-> IF MoveFocus(dlg, key) # dlg.focus THEN None ELSE PyStr(key)]

\* _PopUpSelectDialog.keypress(size, key) on the dialog s shows: 'esc' closes,
\* any other key goes to the focused row and from there to the Pile
_PopUpSelectDialog_keypress(s, evs, sn, key) ==
    LET dlg == s._pop_up_widget IN
    IF key = "esc" THEN
        [self |-> close_pop_up(s), events |-> evs, seen |-> sn, ret |-> None]
    ELSE IF Clicks(dlg, key) THEN
        LET r == click(s, evs, dlg.group[dlg.focus + 1].click) IN
        [self |-> r.self, events |-> r.events, seen |-> r.seen, ret |-> None]
    ELSE
        [self |-> [s EXCEPT !._pop_up_widget.focus = MoveFocus(dlg, key)],
         events |-> evs, seen |-> sn,
         ret |-> IF MoveFocus(dlg, key) # dlg.focus THEN None ELSE PyStr(key)]

Snapshot ==
    [self |-> self, events |-> events, dialogs |-> dialogs, assigns |-> assigns]

Live == self # None

\* the constructor has not been called yet
Fresh == self = None /\ raised = "None"

\* Selector(opts, index=k)
Construct(opts, k) ==
    /\ Fresh
    /\ op' = [name |-> "__init__", arg |-> PyTuple(<<PyTuple(opts), PyInt(k)>>)]
    /\ pre' = Snapshot
    /\ LET r == Selector(opts, k, events, seen) IN
       /\ self' = r.self
       /\ events' = r.events
       /\ seen' = r.seen
       /\ raised' = r.raised
       /\ ret' = r.ret
    /\ UNCHANGED <<dialogs, assigns, ed>>

\* an assignment that took an index past the end for the last option
SetIndex_clamped(val) ==
    /\ Live
    /\ Len(events) < MaxEvents
    /\ op' = [name |-> "index=", arg |-> PyInt(val)]
    /\ pre' = Snapshot
    /\ ret' = None
    /\ IF val < -Len(self._options) THEN
           /\ raised' = "IndexError"
           /\ UNCHANGED <<self, events, seen, assigns>>
       ELSE
           LET v == IF val >= Len(self._options) THEN -1 ELSE val
               r == index_setter(self, events, v)
           IN /\ raised' = "None"
              /\ self' = r.self
              /\ events' = r.events
              /\ seen' = r.seen
              /\ assigns' = assigns + 1
    /\ UNCHANGED <<dialogs, ed>>

\* selector.index = val
SetIndex(val) ==
    /\ Live
    /\ InRange(self._options, val) => Len(events) < MaxEvents
    /\ op' = [name |-> "index=", arg |-> PyInt(val)]
    /\ pre' = Snapshot
    /\ ret' = None
    /\ IF ~InRange(self._options, val) THEN
           /\ raised' = "IndexError"
           /\ UNCHANGED <<self, events, seen, assigns>>
       ELSE
           LET r == index_setter(self, events, val) IN
           /\ raised' = "None"
           /\ self' = r.self
           /\ events' = r.events
           /\ seen' = r.seen
           /\ assigns' = assigns + 1
    /\ UNCHANGED <<dialogs, ed>>

\* selector.keypress(size, key)
SelectorKeypress(key) ==
    /\ Live
    /\ _command_map(key) = ACTIVATE => dialogs < MaxDialogs
    /\ op' = [name |-> "Selector.keypress", arg |-> PyStr(key)]
    /\ pre' = Snapshot
    /\ raised' = "None"
    /\ LET r == Selector_keypress(self, dialogs, key) IN
       /\ self' = r.self
       /\ dialogs' = r.dialogs
       /\ ret' = r.ret
    /\ UNCHANGED <<events, seen, assigns, ed>>

\* dialog.keypress(size, key) on the dialog that is shown
DialogKeypress(key) ==
    /\ Live
    /\ self._pop_up_widget # None
    /\ Clicks(self._pop_up_widget, key) => Len(events) < MaxEvents
    /\ op' = [name |-> "_PopUpSelectDialog.keypress", arg |-> PyStr(key)]
    /\ pre' = Snapshot
    /\ raised' = "None"
    /\ LET r == _PopUpSelectDialog_keypress(self, events, seen, key) IN
       /\ self' = r.self
       /\ events' = r.events
       /\ seen' = r.seen
       /\ ret' = r.ret
    /\ assigns' = IF Clicks(self._pop_up_widget, key) THEN assigns + 1 ELSE assigns
    /\ UNCHANGED <<dialogs, ed>>

\* selector.value
GetValue ==
    /\ Live
    /\ op' = [name |-> "value", arg |-> None]
    /\ pre' = Snapshot
    /\ raised' = "None"
    /\ ret' = value(self)
    /\ UNCHANGED <<self, events, seen, dialogs, assigns, ed>>

\* selector.get_pop_up_parameters()
GetPopUpParameters ==
    /\ Live
    /\ op' = [name |-> "get_pop_up_parameters", arg |-> None]
    /\ pre' = Snapshot
    /\ raised' = "None"
    /\ ret' = get_pop_up_parameters(self)
    /\ UNCHANGED <<self, events, seen, dialogs, assigns, ed>>

Init ==
    /\ self = None
    /\ events = <<>>
    /\ seen = None
    /\ dialogs = 0
    /\ assigns = 0
    /\ ed = NoEditor
    /\ op = [name |-> "None", arg |-> None]
    /\ pre = [self |-> None, events |-> <<>>, dialogs |-> 0, assigns |-> 0]
    /\ raised = "None"
    /\ ret = None

Next ==
    \/ Fresh /\ \E opts \in SelLists, k \in IndexArgs : Construct(opts, k)
    \/ \E val \in IndexArgs : SetIndex(val)
    \/ \E key \in Keys : SelectorKeypress(key)
    \/ \E key \in Keys : DialogKeypress(key)
    \/ GetValue
    \/ GetPopUpParameters

Spec == Init /\ [][Next]_vars

\* the Selector driven through its keys and its pop-up only, with no direct
\* assignment of the index
NextPopUp ==
    \/ Fresh /\ \E opts \in SelLists, k \in IndexArgs : Construct(opts, k)
    \/ \E key \in Keys : SelectorKeypress(key)
    \/ \E key \in Keys : DialogKeypress(key)

SpecPopUp == Init /\ [][NextPopUp]_vars

-----------------------------------------------------------------------------
(* The text editors *)

\* urwid's Edit, as StringEditor uses it: the text and the cursor position

\* Edit(caption=caption, **kwargs)
Edit == [edit_text |-> "", edit_pos |-> 0]

\* Edit.set_edit_text: the cursor is pulled back into the text
set_edit_text(e, text) ==
    [edit_text |-> text,
     edit_pos |-> IF e.edit_pos > Len(text) THEN Len(text) ELSE e.edit_pos]

\* Edit.get_edit_text
get_edit_text(e) == e.edit_text

\* Edit.keypress: a single character is inserted at the cursor, 'backspace'
\* and 'left' act unless the cursor is at the start, any other key is
\* returned unhandled
Edit_keypress(e, key) ==
    LET t == e.edit_text
        p == e.edit_pos
    IN IF Len(key) = 1 THEN
           [edit |-> [edit_text |-> SubSeq(t, 1, p) \o key \o SubSeq(t, p + 1, Len(t)),
                      edit_pos |-> p + 1],
            ret |-> None]
       ELSE IF key = "backspace" /\ p > 0 THEN
           [edit |-> [edit_text |-> SubSeq(t, 1, p - 1) \o SubSeq(t, p + 1, Len(t)),
                      edit_pos |-> p - 1],
            ret |-> None]
       ELSE IF key = "left" /\ p > 0 THEN
           [edit |-> [e EXCEPT !.edit_pos = p - 1], ret |-> None]
       ELSE [edit |-> e, ret |-> PyStr(key)]

EditorClasses ==
    {"StringEditor", "PasswordEditor", "RealnameEditor", "EmailEditor",
     "UsernameEditor"}

\* StringEditor.__init__ (PasswordEditor.__init__ adds the mask, which does
\* not change the text the Edit holds; the other editors inherit it)
StringEditor(cls) == [cls |-> cls, _edit |-> Edit, error |-> None]

\* a keypress that dropped the error without emptying the field
StringEditor_keypress_keep_text(w, key) ==
    LET w1 == IF Truthy(w.error) THEN [w EXCEPT !.error = None] ELSE w
        r == Edit_keypress(w1._edit, key)
    IN [ed |-> [w1 EXCEPT !._edit = r.edit], ret |-> r.ret]

\* StringEditor.keypress
StringEditor_keypress(w, key) ==
    LET w1 == IF Truthy(w.error)
              THEN [w EXCEPT !._edit = set_edit_text(w._edit, ""), !.error = None]
              ELSE w
        r == Edit_keypress(w1._edit, key)
    IN [ed |-> [w1 EXCEPT !._edit = r.edit], ret |-> r.ret]

\* StringEditor.set_error
set_error(w, msg) ==
    [w EXCEPT !.error = PyStr(msg), !._edit = set_edit_text(w._edit, msg)]

\* StringEditor.value (getter)
StringEditor_value(w) == get_edit_text(w._edit)

\* StringEditor.value (setter)
StringEditor_value_setter(w, v) == [w EXCEPT !._edit = set_edit_text(w._edit, v)]

\* the character ranges of the editors' patterns
Lower ==
    {"a", "b", "c", "d", "e", "f", "g", "h", "i", "j", "k", "l", "m",
     "n", "o", "p", "q", "r", "s", "t", "u", "v", "w", "x", "y", "z"}
Upper ==
    {"A", "B", "C", "D", "E", "F", "G", "H", "I", "J", "K", "L", "M",
     "N", "O", "P", "Q", "R", "S", "T", "U", "V", "W", "X", "Y", "Z"}
Digits == {"0", "1", "2", "3", "4", "5", "6", "7", "8", "9"}

\* re.match(pattern, key) is not None, for a pattern that is one character
\* class: the first character of key is in the class
re_match(class, key) == key # "" /\ SubSeq(key, 1, 1) \in class

\* r'[a-zA-Z0-9_\- ]' of RealnameEditor.keypress
realname == Lower \cup Upper \cup Digits \cup {"_", "-", " "}

\* r'[-a-zA-Z0-9_.@+=]' of EmailEditor.keypress
emailname == {"-"} \cup Lower \cup Upper \cup Digits \cup {"_", ".", "@", "+", "="}

\* r'[a-z_]' and r'[a-z0-9_-]' of UsernameEditor.keypress
username(userlen) ==
    IF userlen = 0 THEN Lower \cup {"_"}
    ELSE Lower \cup Digits \cup {"_", "-"}

\* a RealnameEditor.keypress that lets StringEditor clear the error before
\* it filters the key
RealnameEditor_keypress_clear_first(w, key) ==
    IF ~re_match(realname, key)
    THEN [ed |-> IF Truthy(w.error)
                 THEN [w EXCEPT !._edit = set_edit_text(@, ""), !.error = None]
                 ELSE w,
          ret |-> PyBool(FALSE)]
    ELSE StringEditor_keypress(w, key)

\* RealnameEditor.keypress
RealnameEditor_keypress(w, key) ==
    IF ~re_match(realname, key) THEN [ed |-> w, ret |-> PyBool(FALSE)]
    ELSE StringEditor_keypress(w, key)

\* EmailEditor.keypress
EmailEditor_keypress(w, key) ==
    IF ~re_match(emailname, key) THEN [ed |-> w, ret |-> PyBool(FALSE)]
    ELSE StringEditor_keypress(w, key)

\* a UsernameEditor.keypress that holds every key to the empty-field pattern
UsernameEditor_keypress_first_rule(w, key) ==
    IF ~re_match(username(0), key) THEN [ed |-> w, ret |-> PyBool(FALSE)]
    ELSE StringEditor_keypress(w, key)

\* UsernameEditor.keypress
UsernameEditor_keypress(w, key) ==
    LET userlen == Len(StringEditor_value(w)) IN
    IF ~re_match(username(userlen), key) THEN [ed |-> w, ret |-> PyBool(FALSE)]
    ELSE StringEditor_keypress(w, key)

\* widget.keypress(size, key), by the class of the widget
keypress(w, key) ==
    CASE w.cls = "RealnameEditor" -> RealnameEditor_keypress(w, key)
      [] w.cls = "EmailEditor" -> EmailEditor_keypress(w, key)
      [] w.cls = "UsernameEditor" -> UsernameEditor_keypress(w, key)
      [] OTHER -> StringEditor_keypress(w, key)

EdKeys == {"a", "A", "1", "_", "-", " ", ".", "$", "backspace", "left", "enter"}

Msgs == {"", "bad"}

Texts == {"", "ab"}

\* the text the key would be inserted into has room for it
Room(w, key) ==
    \/ keypress(w, key).ed._edit.edit_text = w._edit.edit_text
    \/ Len(keypress(w, key).ed._edit.edit_text) <= MaxText

\* widget.keypress(size, key)
Keypress(key) ==
    /\ Room(ed, key)
    /\ op' = [name |-> "keypress", arg |-> PyStr(key)]
    /\ pre' = [ed |-> ed]
    /\ raised' = "None"
    /\ LET r == keypress(ed, key) IN
       /\ ed' = r.ed
       /\ ret' = r.ret
    /\ UNCHANGED <<self, events, seen, dialogs, assigns>>

\* widget.set_error(msg)
SetError(msg) ==
    /\ op' = [name |-> "set_error", arg |-> PyStr(msg)]
    /\ pre' = [ed |-> ed]
    /\ raised' = "None"
    /\ ed' = set_error(ed, msg)
    /\ ret' = None
    /\ UNCHANGED <<self, events, seen, dialogs, assigns>>

\* widget.value = v
SetValue(v) ==
    /\ op' = [name |-> "value=", arg |-> PyStr(v)]
    /\ pre' = [ed |-> ed]
    /\ raised' = "None"
    /\ ed' = StringEditor_value_setter(ed, v)
    /\ ret' = None
    /\ UNCHANGED <<self, events, seen, dialogs, assigns>>

InitEditor ==
    /\ self = None
    /\ events = <<>>
    /\ seen = None
    /\ dialogs = 0
    /\ assigns = 0
    /\ \E cls \in EditorClasses : ed = StringEditor(cls)
    /\ op = [name |-> "__init__", arg |-> None]
    /\ pre = [ed |-> None]
    /\ raised = "None"
    /\ ret = None

NextEditor ==
    \/ \E key \in EdKeys : Keypress(key)
    \/ \E msg \in Msgs : SetError(msg)
    \/ \E v \in Texts : SetValue(v)

SpecEditor == InitEditor /\ [][NextEditor]_vars

\* construction alone, over raw option lists of every shape
NextCtor == Fresh /\ \E opts \in RawLists, k \in IndexArgs : Construct(opts, k)

SpecCtor == Init /\ [][NextCtor]_vars

-----------------------------------------------------------------------------
(* Properties of the Selector *)

\* the last operation was a successful assignment selector.index = i
Assigned(i) == op.name = "index=" /\ op.arg.n = i /\ raised = "None"

\* the last operation was a key given to the dialog that was shown
DialogKey == op.name = "_PopUpSelectDialog.keypress"

\* the last operation was an activating key on a selectable row: a row click
RowClicked ==
    /\ DialogKey
    /\ op.arg.s \in {"enter", " "}
    /\ pre.self._pop_up_widget.group[pre.self._pop_up_widget.focus + 1].widget
         = "_PopUpButton"

\* the row that was clicked
ClickedRow == pre.self._pop_up_widget.focus

\* C1: an assignment selector.index = i with 0 <= i < len(options) delivers
\* exactly one 'select', carrying options[i].value, and leaves index = i,
\* value = options[i].value and the button reading prefix + options[i].label
C1_AssignEmitsOnceAndStores ==
    (op.name = "index=" /\ 0 <= op.arg.n /\ op.arg.n < Len(pre.self._options)) =>
        LET i == op.arg.n
            o == pre.self._options[i + 1]
        IN /\ raised = "None"
           /\ events = pre.events \o <<o[3]>>
           /\ seen.payload = o[3]
           /\ index(self) = i
           /\ value(self) = o[3]
           /\ self._button = "(+) " \o o[1].s

\* C1's case: on a YesNo showing 'Yes', index = 1 has emitted select('No')
C1_Witness ==
    /\ Assigned(1)
    /\ pre.self._options = <<<<PyStr("Yes"), PyBool(TRUE), PyStr("Yes")>>,
                             <<PyStr("No"), PyBool(TRUE), PyStr("No")>>>>
    /\ value(pre.self) = PyStr("Yes")
    /\ events = <<PyStr("No")>>
    /\ value(self) = PyStr("No")
    /\ self._button = "(+) No"

\* C2: a click on the selectable row i of the open pop-up leaves the Selector
\* as the assignment index = i would (index, value, button, one 'select' with
\* options[i].value), the listeners run while the pop-up is still open, and
\* afterwards the pop-up is closed
C2_ClickIsAssignmentThenClose ==
    RowClicked =>
        LET i == ClickedRow
            a == index_setter(pre.self, pre.events, i)
        IN /\ index(self) = i
           /\ value(self) = pre.self._options[i + 1][3]
           /\ self._button = "(+) " \o pre.self._options[i + 1][1].s
           /\ events = pre.events \o <<pre.self._options[i + 1][3]>>
           /\ [self EXCEPT !._pop_up_widget = a.self._pop_up_widget] = a.self
           /\ events = a.events
           /\ seen = a.seen
           /\ seen.open
           /\ self._pop_up_widget = None

\* C2's case: a click on a row other than the current one has been handled
C2_Witness ==
    /\ RowClicked
    /\ ClickedRow # index(pre.self)
    /\ index(self) = ClickedRow
    /\ pre.events # <<>>
    /\ self._pop_up_widget = None

\* C3: 'esc' in the open pop-up closes it, leaves index, value, button and
\* options as they were and emits nothing
C3_EscClosesWithoutEffect ==
    (DialogKey /\ op.arg.s = "esc") =>
        /\ self._pop_up_widget = None
        /\ index(self) = index(pre.self)
        /\ value(self) = value(pre.self)
        /\ self._button = pre.self._button
        /\ self._options = pre.self._options
        /\ events = pre.events

\* C3's case: 'esc' after the focus was moved off the current row, with a
\* 'select' already delivered earlier
C3_Witness ==
    /\ DialogKey
    /\ op.arg.s = "esc"
    /\ pre.self._pop_up_widget.focus # index(pre.self)
    /\ events # <<>>
    /\ self._pop_up_widget = None

\* C4: during an assignment index = i the listeners receive options[i].value
\* while button, index and value still show the option selected before; these
\* change after the delivery
C4_ListenersSeeOldState ==
    (op.name = "index=" /\ raised = "None") =>
        /\ seen.payload = PyAt(pre.self._options, op.arg.n)[3]
        /\ seen._button = pre.self._button
        /\ seen.index = index(pre.self)
        /\ seen.value = value(pre.self)
        /\ index(self) = op.arg.n
        /\ self._button = "(+) " \o PyAt(pre.self._options, op.arg.n)[1].s
        /\ value(self) = seen.payload

\* C4's case: the listeners were handed the new value while the old label was
\* still on the button
C4_Witness ==
    /\ op.name = "index="
    /\ raised = "None"
    /\ seen.payload = value(self)
    /\ seen.value # seen.payload
    /\ seen._button # self._button
    /\ seen.index # index(self)

Open(s) == s._pop_up_widget # None

\* C5: the pop-up is closed after construction; it opens only on a key bound
\* to ACTIVATE given to the Selector; it closes only on a row click or 'esc'
\* in the dialog; other keys leave it open or closed as it was; each opening
\* shows a dialog created then, on the index of that moment
C5_PopUpLifecycle ==
    /\ (op.name = "__init__" /\ Live) => ~Open(self)
    /\ (Live /\ pre.self # None) =>
        /\ (~Open(pre.self) /\ Open(self)) =>
              (op.name = "Selector.keypress" /\ op.arg.s \in {"enter", " "})
        /\ (Open(pre.self) /\ ~Open(self)) =>
              (DialogKey /\ (op.arg.s = "esc" \/ RowClicked))
        /\ (op.name = "Selector.keypress" /\ op.arg.s \notin {"enter", " "}) =>
              self = pre.self
        /\ (DialogKey /\ op.arg.s # "esc" /\ ~RowClicked) =>
              /\ Open(self)
              /\ self._pop_up_widget.id = pre.self._pop_up_widget.id
        /\ (op.name = "Selector.keypress" /\ op.arg.s \in {"enter", " "}) =>
              /\ Open(self)
              /\ dialogs = pre.dialogs + 1
              /\ self._pop_up_widget.id = dialogs
              /\ self._pop_up_widget.cur_index = index(pre.self)
              /\ self._pop_up_widget.focus
                   = PyPos(self._options, index(pre.self))
    /\ (Live /\ Open(self)) => self._pop_up_widget.id = dialogs

\* C5's case: a second opening, after the index was changed through the
\* first dialog, shows a second dialog on the new index
C5_Witness ==
    /\ op.name = "Selector.keypress"
    /\ Open(self)
    /\ ~Open(pre.self)
    /\ self._pop_up_widget.id = 2
    /\ events # <<>>
    /\ self._pop_up_widget.cur_index = index(self)
    /\ index(self) # 0

\* C6: the index of a constructed Selector stays within 0 <= index <
\* len(options) under assignments, activations, row clicks and escapes
C6_IndexInRange ==
    Live => (0 <= index(self) /\ index(self) < Len(self._options))

\* C7: a successful construction with initial index k emits nothing and
\* leaves index = k, value = options[k].value and the button reading prefix +
\* options[k].label; afterwards the index changes only in the index setter
\* (assigned directly or by a row click), together with one 'select'
C7_SilentConstructionThenSetterOnly ==
    /\ (op.name = "__init__" /\ raised = "None") =>
          LET k == op.arg.es[2].n IN
          /\ Live
          /\ events = <<>>
          /\ seen = None
          /\ index(self) = k
          /\ value(self) = PyAt(self._options, k)[3]
          /\ self._button = "(+) " \o PyAt(self._options, k)[1].s
    /\ (Live /\ pre.self # None /\ index(self) # index(pre.self)) =>
          /\ Assigned(index(self)) \/ RowClicked
          /\ events = pre.events \o <<value(self)>>

\* C7's case: a Selector constructed on an initial index other than 0, on an
\* option whose value differs from its label
C7_Witness ==
    /\ op.name = "__init__"
    /\ Live
    /\ index(self) = 1
    /\ value(self) = PyInt(7)
    /\ self._button = "(+) B"
    /\ events = <<>>

-----------------------------------------------------------------------------
(* Properties of Selector.__init__, over SpecCtor *)

\* the raw options and the index the constructor was called with
RawArg == op.arg.es[1].es
IndexArg == op.arg.es[2].n

\* the raw option shapes the constructor accepts and those it rejects
ValidRaw(o) == o.t = "str" \/ (o.t = "tuple" /\ Len(o.es) \in 1..3)
InvalidRaw(o) ==
    \/ o.t \notin {"str", "tuple"}
    \/ o.t = "tuple" /\ (Len(o.es) = 0 \/ Len(o.es) > 3)

\* C8: construction from valid raw options stores one triple per raw option,
\* in order: t -> (t, True, t), (l,) -> (l, True, l), (l, s) -> (l, s, l),
\* (l, s, v) stored as it is
C8_NormalizedTriples ==
    (op.name = "__init__" /\ \A j \in 1..Len(RawArg) : ValidRaw(RawArg[j])) =>
        /\ raised # "SelectorError"
        /\ (-Len(RawArg) <= IndexArg /\ IndexArg < Len(RawArg)) => Live
        /\ Live =>
            /\ Len(self._options) = Len(RawArg)
            /\ \A j \in 1..Len(RawArg) :
                 LET o == RawArg[j]
                     n == self._options[j]
                 IN /\ o.t = "str" => n = <<o, PyBool(TRUE), o>>
                    /\ (o.t = "tuple" /\ Len(o.es) = 1) =>
                           n = <<o.es[1], PyBool(TRUE), o.es[1]>>
                    /\ (o.t = "tuple" /\ Len(o.es) = 2) =>
                           n = <<o.es[1], o.es[2], o.es[1]>>
                    /\ (o.t = "tuple" /\ Len(o.es) = 3) =>
                           n = <<o.es[1], o.es[2], o.es[3]>>

\* C8's case: a Selector built from a bare text, a 2-element and a 3-element
\* option holds their three triples in that order
C8_Witness ==
    /\ op.name = "__init__"
    /\ Live
    /\ RawArg = <<PyStr("Yes"), PyTuple(<<PyStr("Group"), PyBool(FALSE)>>),
                  PyTuple(<<PyStr("B"), PyBool(TRUE), PyInt(7)>>)>>
    /\ self._options = <<<<PyStr("Yes"), PyBool(TRUE), PyStr("Yes")>>,
                         <<PyStr("Group"), PyBool(FALSE), PyStr("Group")>>,
                         <<PyStr("B"), PyBool(TRUE), PyInt(7)>>>>

\* C9: if a raw option is a bare non-text element or a grouping of length 0
\* or more than 3, construction raises SelectorError for the first such
\* option, no Selector results and nothing is emitted
C9_InvalidOptionRaises ==
    (op.name = "__init__" /\ \E j \in 1..Len(RawArg) : InvalidRaw(RawArg[j])) =>
        LET first == CHOOSE j \in 1..Len(RawArg) :
                        /\ InvalidRaw(RawArg[j])
                        /\ \A i \in 1..(j - 1) : ~InvalidRaw(RawArg[i])
        IN /\ raised = "SelectorError"
           /\ ret = RawArg[first]
           /\ self = None
           /\ events = <<>>
           /\ seen = None

\* C9's case: an empty grouping after a valid option and before another
\* invalid one is the option the SelectorError names
C9_Witness ==
    /\ op.name = "__init__"
    /\ RawArg = <<PyStr("Yes"), PyTuple(<<>>), PyInt(5)>>
    /\ raised = "SelectorError"
    /\ ret = PyTuple(<<>>)
    /\ self = None

\* C13: get_pop_up_parameters on a Selector of n options with index k returns
\* overlay_width = the longest label of all options + len(prefix) + 3,
\* overlay_height = n + 2, top = -(k + 1) and left = -1, and changes nothing
C13_PopUpGeometry ==
    op.name = "get_pop_up_parameters" =>
        LET options == pre.self._options
            n == Len(options)
            k == index(pre.self)
            longest == CHOOSE m \in 0..100 :
                           /\ \E j \in 1..n : Len(options[j][1].s) = m
                           /\ \A j \in 1..n : Len(options[j][1].s) <= m
        IN  /\ n > 0
            /\ raised = "None"
            /\ ret.overlay_width = longest + Len("(+) ") + 3
            /\ ret.overlay_height = n + 2
            /\ ret.top = -(k + 1)
            /\ ret.left = -1
            /\ self = pre.self
            /\ events = pre.events
            /\ dialogs = pre.dialogs

\* C13's case: the heading 'Group' is the longest label of three options and
\* the index is 2: width 5 + 4 + 3, height 3 + 2, top -3
C13_Witness ==
    /\ op.name = "get_pop_up_parameters"
    /\ Len(self._options) = 3
    /\ self._options[1][1] = PyStr("Group")
    /\ ~Truthy(self._options[1][2])
    /\ index(self) = 2
    /\ ret = [t |-> "dict", left |-> -1, top |-> -3,
               overlay_width |-> 12, overlay_height |-> 5]

\* C14: the dialog of a pop-up opened at index k has one row per option, in
\* option order; the row of a selectable option j is a button reading
\* '(+) ' + label when j = k, '( ) ' + label otherwise, whose click carries
\* j; the row of a non-selectable option is a Text of the label with no
\* click; so at most one row reads '(+) ', and that row is k
C14_RowsOfThePopUp ==
    /\ (op.name = "Selector.keypress" /\ Live /\ Open(self) /\ ~Open(pre.self))
          => self._pop_up_widget.cur_index = index(pre.self)
    /\ (Live /\ Open(self)) =>
        LET dlg == self._pop_up_widget
            options == self._options
            n == Len(options)
            k == dlg.cur_index
        IN  /\ Len(dlg.group) = n
            /\ \A j \in 0..(n - 1) :
                  LET row == dlg.group[j + 1]
                      label == options[j + 1][1].s
                  IN  /\ Truthy(options[j + 1][2]) =>
                            /\ row.widget = "_PopUpButton"
                            /\ row.text = (IF j = k THEN "(+) " ELSE "( ) ") \o label
                            /\ row.click = j
                      /\ ~Truthy(options[j + 1][2]) =>
                            /\ row.widget = "Text"
                            /\ DOMAIN row = {"widget", "text"}
                            /\ SubSeq(row.text, Len(row.text) - Len(label) + 1,
                                      Len(row.text)) = label
                            /\ SubSeq(row.text, 1, 4) \notin {"(+) ", "( ) "}
                      /\ SubSeq(row.text, 1, 4) = "(+) " => j = k

\* C14's case: the pop-up of [('Group', False), ('A', True), ('B', True)]
\* opened at index 1 shows the heading as text, '(+) A' and '( ) B'
C14_Witness ==
    /\ op.name = "Selector.keypress"
    /\ Live
    /\ Open(self)
    /\ index(pre.self) = 1
    /\ self._pop_up_widget.group =
          <<[widget |-> "Text", text |-> "    Group"],
            [widget |-> "_PopUpButton", text |-> "(+) A", click |-> 1],
            [widget |-> "_PopUpButton", text |-> "( ) B", click |-> 2]>>

\* C16: no operation on a constructed Selector changes its option list:
\* not an assignment of the index (accepted or failing), a read of value, a
\* key given to the Selector or to the dialog, a row click, 'esc' or the
\* geometry query
C16_OptionsNeverChange ==
    (Live /\ pre.self # None) =>
        /\ op.name \in {"index=", "value", "Selector.keypress",
                         "_PopUpSelectDialog.keypress", "get_pop_up_parameters"}
        /\ self._options = pre.self._options

\* C16's case: a row click that moved the index from the first option to the
\* second, after an earlier assignment, with the three options as they were
C16_Witness ==
    /\ RowClicked
    /\ Len(events) = 2
    /\ index(pre.self) = 0
    /\ index(self) = 1
    /\ self._options = pre.self._options
    /\ Len(self._options) = 3

-----------------------------------------------------------------------------
(* Properties of the Selector driven through the pop-up only, over SpecPopUp *)

\* option i (Python index) of the Selector s has a true selectable flag
SelectableOption(s, i) == Truthy(PyAt(s._options, i)[2])

\* C17: without direct assignment of the index, the index stays the one
\* given to the constructor until a 'select' is emitted, from then on it is
\* the index of a selectable option, and every 'select' delivered carries
\* the value of a selectable option
C17_PopUpSelectsSelectableOnly ==
    Live =>
        /\ (pre.self # None /\ events = <<>>) => index(self) = index(pre.self)
        /\ (pre.self # None /\ index(self) # index(pre.self)) =>
              /\ RowClicked
              /\ SelectableOption(self, index(self))
        /\ events # <<>> => SelectableOption(self, index(self))
        /\ \A e \in 1..Len(events) :
              \E j \in 1..Len(self._options) :
                  /\ Truthy(self._options[j][2])
                  /\ self._options[j][3] = events[e]

\* C17's case: the Selector starts on the heading, which is not selectable;
\* the focus is moved down to 'A' and the row is clicked
C17_Witness ==
    /\ RowClicked
    /\ ~SelectableOption(pre.self, index(pre.self))
    /\ index(pre.self) = 0
    /\ index(self) = 1
    /\ events = <<PyStr("A")>>

-----------------------------------------------------------------------------
(* Failing and repeated assignments, over Spec *)

\* C18: selector.index = i with i >= len(options) raises before anything is
\* emitted: no 'select', and index, value, button and pop-up as they were
C18_AssignPastEndRaises ==
    (op.name = "index=" /\ op.arg.n >= Len(pre.self._options)) =>
        /\ raised = "IndexError"
        /\ events = pre.events
        /\ assigns = pre.assigns
        /\ self = pre.self
        /\ index(self) = index(pre.self)
        /\ value(self) = value(pre.self)
        /\ self._button = pre.self._button

\* C18's case: index = 2 on ['Yes', 'No'] after 'No' was selected: the
\* error is raised and the one earlier event is all that was delivered
C18_Witness ==
    /\ op = [name |-> "index=", arg |-> PyInt(2)]
    /\ raised = "IndexError"
    /\ Len(self._options) = 2
    /\ index(self) = 1
    /\ events = <<PyStr("No")>>
    /\ self._button = "(+) No"

\* C19: the setter does not suppress repeats: assigning the current index
\* again, or clicking the highlighted row of the current index, delivers one
\* more 'select' with the current value and leaves index, value and button
\* as they were; the number of 'select' delivered is the number of
\* completed assignments and row clicks
C19_RepeatsStillEmit ==
    /\ assigns = Len(events)
    /\ (Assigned(op.arg.n) /\ op.arg.n = index(pre.self)) =>
          /\ events = Append(pre.events, value(pre.self))
          /\ self = pre.self
    /\ (/\ RowClicked
        /\ ClickedRow = pre.self._pop_up_widget.cur_index
        /\ ClickedRow = index(pre.self)) =>
          /\ events = Append(pre.events, value(pre.self))
          /\ index(self) = index(pre.self)
          /\ value(self) = value(pre.self)
          /\ self._button = pre.self._button

\* C19's case: 'No' is the current option and its highlighted row is
\* clicked: a second select('No') is delivered and the index stays 1
C19_Witness ==
    /\ RowClicked
    /\ ClickedRow = index(pre.self)
    /\ pre.self._pop_up_widget.group[ClickedRow + 1].text = "(+) No"
    /\ index(self) = 1
    /\ events = <<PyStr("No"), PyStr("No")>>
    /\ assigns = 2

-----------------------------------------------------------------------------
(* Properties of the editors, over SpecEditor *)

\* the error is armed: StringEditor.keypress tests self.error for truth
Armed(w) == w.error # None /\ w.error.s # ""

\* a plain or password StringEditor, whose keypress is StringEditor.keypress
Plain(w) == w.cls \in {"StringEditor", "PasswordEditor"}

\* the text and cursor after the key alone, with no clearing
KeyApplied(e, key) == Edit_keypress(e, key).edit

\* C10 as stated, for every message: in a plain or password StringEditor
\* set_error(msg) puts msg in the field and sets the error; the keypress that
\* follows empties the field, clears the error and is then processed; later
\* keypresses do not clear
C10_ErrorClearedByNextKey ==
    /\ (op.name = "set_error" /\ Plain(ed)) =>
          /\ StringEditor_value(ed) = op.arg.s
          /\ ed.error = op.arg
    /\ (op.name = "keypress" /\ Plain(ed) /\ pre.ed.error # None) =>
          /\ ed.error = None
          /\ ed._edit = KeyApplied([edit_text |-> "", edit_pos |-> 0], op.arg.s)
    /\ (op.name = "keypress" /\ Plain(ed) /\ pre.ed.error = None) =>
          /\ ed.error = None
          /\ ed._edit = KeyApplied(pre.ed._edit, op.arg.s)

\* C10 amended: the same for every non-empty message; set_error('') empties
\* the field and leaves an error that no keypress clears
C10_NonEmptyErrorClearedByNextKey ==
    /\ (op.name = "set_error" /\ Plain(ed)) =>
          /\ StringEditor_value(ed) = op.arg.s
          /\ ed.error = op.arg
          /\ Armed(ed) <=> op.arg.s # ""
    /\ (op.name = "keypress" /\ Plain(ed) /\ Armed(pre.ed)) =>
          /\ ed.error = None
          /\ ed._edit = KeyApplied([edit_text |-> "", edit_pos |-> 0], op.arg.s)
          /\ Len(op.arg.s) = 1 => StringEditor_value(ed) = op.arg.s
          /\ Len(op.arg.s) # 1 => StringEditor_value(ed) = ""
    /\ (op.name = "keypress" /\ Plain(ed) /\ ~Armed(pre.ed)) =>
          /\ ed.error = pre.ed.error
          /\ ed._edit = KeyApplied(pre.ed._edit, op.arg.s)

\* C10's case: 'a' typed into a field showing the error 'bad', the cursor
\* inside the message, leaves just 'a' and no error
C10_Witness ==
    /\ op.name = "keypress"
    /\ Plain(ed)
    /\ op.arg.s = "a"
    /\ pre.ed.error = PyStr("bad")
    /\ StringEditor_value(pre.ed) = "bad"
    /\ pre.ed._edit.edit_pos = 2
    /\ StringEditor_value(ed) = "a"
    /\ ed._edit.edit_pos = 1
    /\ ed.error = None

\* the last keypress reached StringEditor.keypress: the editor and the
\* returned value are the ones StringEditor.keypress gives
Forwarded ==
    [ed |-> ed, ret |-> ret] = StringEditor_keypress(pre.ed, op.arg.s)

\* the last keypress was rejected: False returned, the editor as it was
Swallowed == ret = PyBool(FALSE) /\ ed = pre.ed

\* C11: UsernameEditor.keypress decides by the text the field holds when the
\* key arrives: on an empty text a-z and '_' are forwarded, digits and '-'
\* rejected; on a non-empty text a-z, 0-9, '_' and '-' are forwarded; a
\* rejected key never reaches the Edit and the text stays as it was
C11_UsernameFilterByCurrentText ==
    (op.name = "keypress" /\ ed.cls = "UsernameEditor") =>
        LET key == op.arg.s
            text == StringEditor_value(pre.ed)
        IN  /\ (text = "" /\ key \in Lower \cup {"_"}) => Forwarded
            /\ (text = "" /\ key \in Digits \cup {"-"}) => Swallowed
            /\ (text # "" /\ key \in Lower \cup Digits \cup {"_", "-"})
                  => Forwarded
            /\ ret = PyBool(FALSE) => Swallowed
            /\ Forwarded \/ Swallowed

\* C11's case: '-' typed after 'a' is forwarded and inserted, although the
\* same key was rejected while the field was empty
C11_Witness ==
    /\ op.name = "keypress"
    /\ ed.cls = "UsernameEditor"
    /\ op.arg.s = "-"
    /\ StringEditor_value(pre.ed) = "a"
    /\ pre.ed.error = None
    /\ StringEditor_value(ed) = "a-"
    /\ ret = None

\* C12: RealnameEditor forwards a one-character key exactly when it is in
\* [A-Za-z0-9_- ] and EmailEditor exactly when it is in [A-Za-z0-9_.@+=-];
\* a rejected key returns False and leaves the text and the error alone
C12_RealnameEmailFilter ==
    (op.name = "keypress" /\ ed.cls \in {"RealnameEditor", "EmailEditor"}) =>
        LET key == op.arg.s
            allowed ==
                IF ed.cls = "RealnameEditor"
                THEN Upper \cup Lower \cup Digits \cup {"_", "-", " "}
                ELSE Upper \cup Lower \cup Digits
                        \cup {"_", ".", "@", "+", "=", "-"}
        IN  /\ Len(key) = 1 => (Forwarded <=> key \in allowed)
            /\ ~Forwarded =>
                  /\ Swallowed
                  /\ StringEditor_value(ed) = StringEditor_value(pre.ed)
                  /\ ed.error = pre.ed.error

\* C12's case: '.' typed into a RealnameEditor that shows the error 'bad'
\* is rejected, and the message and the error stay
C12_Witness ==
    /\ op.name = "keypress"
    /\ ed.cls = "RealnameEditor"
    /\ op.arg.s = "."
    /\ pre.ed.error = PyStr("bad")
    /\ ret = PyBool(FALSE)
    /\ ed.error = PyStr("bad")
    /\ StringEditor_value(ed) = "bad"

\* C15: in a UsernameEditor, whenever the field is non-empty and no error
\* is armed, the first character of the text is in [a-z_]
C15_UsernameStartsValid ==
    (/\ ed.cls = "UsernameEditor"
     /\ StringEditor_value(ed) # ""
     /\ ~Armed(ed))
        => SubSeq(StringEditor_value(ed), 1, 1) \in Lower \cup {"_"}

====
